---------------------------- MODULE Spec2Model ----------------------------
(***************************************************************************)
(* TicketBari server: the booking / payment / inventory protocol, the      *)
(* advertise cap and the user upsert, as request handlers that interleave  *)
(* at every store call (every `await` on a collection).                    *)
(*                                                                         *)
(* A run serves NumSlots requests.  Slot s holds request number s: its     *)
(* route and inputs, the handler's position, the document the handler read *)
(* and the HTTP status it answered with.  Slots are started in order and   *)
(* never reused, so the slots are also the history of the run.             *)
(***************************************************************************)
EXTENDS Integers, Sequences, FiniteSets, TLC

VARIABLES
    tickets,    \* ticketsCollection : ticket _id -> document
    bookings,   \* bookingsCollection: sequence of documents, _id = position
    payments,   \* paymentCollection : sequence of documents (append only)
    users,      \* usersCollection   : email -> role, or NoRole (no document)
    req,        \* the requests: slot -> [op, arg, pc, doc, code, pre]
    serial,     \* TRUE: clients wait for a response before the next request
    server      \* the revision of the server that runs: a file under src/

vars == <<tickets, bookings, payments, users, req, serial, server>>

-----------------------------------------------------------------------------
(* Bounds of the model *)

NumSlots == 3        \* requests served in one run
NumAdTickets == 7    \* tickets of the advertise runs
MaxInFlight == 2     \* requests in flight at once in a concurrent run
InitQuantity == 2    \* quantity of every ticket at the start
Price == 20          \* price of every ticket

Slots == 1..NumSlots
Quantities == {1, 2}             \* quantity field of POST /bookings bodies
Seats == {"1A", "50F"}           \* seats: two values of row 1-50 + letter A-F
NoSeat == ""                     \* body without seatNumber
Emails == {"u1", "u2"}           \* verified token emails
TxnIds == {"tx1"}
Amounts == {Price * q : q \in Quantities}
BadId == 0                       \* a string ObjectId.isValid rejects
BookTickets == {1, 2}            \* tickets of the booking runs
TicketArgs == {BadId, 1, 2, 3}   \* 3: a well-formed id of no ticket
BookingArgs == {BadId, 1, 2}     \* ids past the ledger's end match nothing
CreateSeats == {NoSeat, "1A"}
CreateEmails == {"u1"}
PayEmails == {"u1"}
PayMethods == {""}               \* "": body without paymentMethod
PatchEmails == {"u2"}
AdminEmails == {"a1"}
VendorEmails == {"u1"}           \* the vendor who updates tickets
VendorTicketArgs == {BadId, 1, 2, 3}
\* the fields a ticket body carries: req.body of POST /tickets and of
\* PATCH /tickets/:id
AddFieldArgs == {{"verificationStatus", "isAdvertised"}}
UpdateFieldArgs == {{"quantity"}, {"verificationStatus"}, {"isAdvertised"},
                    {"isHidden"}}
FraudArgs == {"u1"}            \* the moderator of the advertise runs
VerifyArgs == {BadId, 1, NumAdTickets}
VerifyStatusArgs == {"approved", "rejected", "pending"}            \* a customer who owns no booking of the start
AdArgs == {BadId} \cup 1..(NumAdTickets + 1)   \* the last: an id of no ticket
RoleArgs == {"", "customer", "vendor", "admin"}   \* "": body without role
UserEmailArgs == {"", "u1", "u2"}                 \* "": body without email
Roles == {"customer", "vendor", "admin"}
Servers == {"index.js", "part_000", "part_001"}
StatusArgs == {"accepted", "rejected", "pending", "paid", "cancelled", "refunded"}

-----------------------------------------------------------------------------
(* Documents *)

NoDoc == [none |-> TRUE]
NoRole == "none"
NoTxn == "null"
Now == "now"                     \* new Date().toISOString()

Ticket(q, vs, adv) ==
    [price |-> Price, quantity |-> q, verificationStatus |-> vs,
     isAdvertised |-> adv, isHidden |-> FALSE, vendorEmail |-> "v1"]

\* src/index.js:288-327, the booking object POST /bookings builds
NewBooking_UnitTotal(tid, ticket, email, qty, seat) ==
    [ticketId |-> tid, userEmail |-> email, quantity |-> qty,
     unitPrice |-> ticket.price, totalPrice |-> ticket.price,
     seatNumber |-> seat, status |-> "pending", bookingStatus |-> "pending",
     transactionId |-> NoTxn, paymentMethod |-> NoTxn, paymentDate |-> NoTxn]
NewBooking(tid, ticket, email, qty, seat) ==
    [ticketId |-> tid, userEmail |-> email, quantity |-> qty,
     unitPrice |-> ticket.price, totalPrice |-> ticket.price * qty,
     seatNumber |-> seat, status |-> "pending", bookingStatus |-> "pending",
     transactionId |-> NoTxn, paymentMethod |-> NoTxn, paymentDate |-> NoTxn]

\* paymentMethod || "Credit Card", src/index.js:488 and 504
MethodOf(method) == IF method = "" THEN "Credit Card" ELSE method

\* src/index.js:476-492, the payment object POST /payments builds
NewPayment(bid, booking, email, txn, amount, method) ==
    [bookingId |-> bid, userEmail |-> email, transactionId |-> txn,
     amount |-> amount, seatNumber |-> booking.seatNumber,
     paymentMethod |-> MethodOf(method), paymentDate |-> Now,
     status |-> "completed"]

\* the $set of src/index.js:499-509 applied to a booking
MarkPaid_NoStamp(b, txn, method) ==
    [b EXCEPT !.status = "paid", !.bookingStatus = "confirmed"]
MarkPaid(b, txn, method) ==
    [b EXCEPT !.status = "paid", !.bookingStatus = "confirmed",
              !.transactionId = txn, !.paymentMethod = MethodOf(method),
              !.paymentDate = Now]

-----------------------------------------------------------------------------
(* The store *)

\* ObjectId.isValid
IsValidId(id) == id # BadId

\* partialFilterExpression of the unique index, src/index.js:60-62
ActiveStatuses == {"pending", "confirmed"}

InIndex_All(b) == TRUE
InIndex(b) == b.bookingStatus \in ActiveStatuses

\* the unique index { ticketId: 1, seatNumber: 1 }, src/index.js:56-64:
\* no two indexed documents share the key
IndexHolds_NoIndex(bks) == TRUE
IndexHolds(bks) ==
    \A i, j \in DOMAIN bks :
        (i # j /\ InIndex(bks[i]) /\ InIndex(bks[j]))
            => ~(bks[i].ticketId = bks[j].ticketId
                 /\ bks[i].seatNumber = bks[j].seatNumber)

\* a write that would break the index is refused with error code 11000
DuplicateKey(bks) == ~IndexHolds(bks)

\* error.code of that refusal, src/index.js:334
DuplicateKeyError == 11000
NoError == 0

Store == [tickets |-> tickets, bookings |-> bookings, payments |-> payments,
          users |-> users]

-----------------------------------------------------------------------------
(* Requests *)

NoArg == [id |-> BadId, qty |-> 0, seat |-> NoSeat, status |-> "",
          amount |-> 0, email |-> "", txn |-> NoTxn, role |-> "",
          method |-> "", target |-> "", fields |-> {}]

IdleReq == [op |-> "none", arg |-> NoArg, pc |-> "idle", doc |-> NoDoc,
            code |-> 0, err |-> NoError, pre |-> NoDoc]

InFlight(s) == req[s].pc \notin {"idle", "done"}

\* Requests arrive in slot order; in a serial run only when none is in flight,
\* in a concurrent run while fewer than MaxInFlight are.
CanStart(s) ==
    /\ req[s].pc = "idle"
    /\ IF s = 1 THEN TRUE ELSE req[s - 1].pc # "idle"
    /\ Cardinality({t \in Slots : InFlight(t)})
           < (IF serial THEN 1 ELSE MaxInFlight)

\* the handler begins: the request is recorded with the store it arrived at
Begin(s, op, arg, pc) ==
    req' = [req EXCEPT ![s] = [op |-> op, arg |-> arg, pc |-> pc,
                               doc |-> NoDoc, code |-> 0, err |-> NoError,
                               pre |-> Store]]

\* res.status(code).send(...): the handler ends
Respond(s, code) ==
    req' = [req EXCEPT ![s].pc = "done", ![s].code = code]

\* the handler was rejected before its first store call
Reject(s, op, arg, code) ==
    req' = [req EXCEPT ![s] = [op |-> op, arg |-> arg, pc |-> "done",
                               doc |-> NoDoc, code |-> code,
                               err |-> NoError, pre |-> Store]]

\* the store call threw err; the catch block answers code
Catch(s, err, code) ==
    req' = [req EXCEPT ![s].pc = "done", ![s].code = code, ![s].err = err]

At(s, op, pc) == req[s].op = op /\ req[s].pc = pc

-----------------------------------------------------------------------------
(* POST /bookings, src/index.js:256-343 *)

\* generateSeatNumber, src/index.js:88-92: any row 1-50 and letter A-F
GeneratedSeats == Seats

\* src/index.js:258-264
StartCreateBooking(s) ==
    /\ CanStart(s)
    /\ \E tid \in TicketArgs, q \in Quantities, seat \in CreateSeats,
          e \in CreateEmails :
        LET arg == [NoArg EXCEPT !.id = tid, !.qty = q, !.seat = seat,
                                 !.email = e]
        IN  IF ~IsValidId(tid)
            THEN Reject(s, "createBooking", arg, 400)
            ELSE Begin(s, "createBooking", arg, "findTicket")
    /\ UNCHANGED <<tickets, bookings, payments, users, serial, server>>

\* src/index.js:267-327: findOne on tickets, then the booking object
CreateFindTicket(s) ==
    /\ At(s, "createBooking", "findTicket")
    /\ LET a == req[s].arg
       IN  IF a.id \notin DOMAIN tickets
           THEN Respond(s, 404)
           ELSE \E seat \in (IF a.seat = NoSeat THEN GeneratedSeats
                                                ELSE {a.seat}) :
                   req' = [req EXCEPT
                             ![s].pc = "insertBooking",
                             ![s].doc = NewBooking(a.id, tickets[a.id],
                                                   a.email, a.qty, seat)]
    /\ UNCHANGED <<tickets, bookings, payments, users, serial, server>>

\* src/index.js:330-342: insertOne; the catch block answers 409 to error
\* code 11000 and 500 to any other
CreateInsertBooking(s) ==
    /\ At(s, "createBooking", "insertBooking")
    /\ LET new == Append(bookings, req[s].doc)
       IN  IF DuplicateKey(new)
           THEN Catch(s, DuplicateKeyError, 409) /\ UNCHANGED bookings
           ELSE Respond(s, 201) /\ bookings' = new
    /\ UNCHANGED <<tickets, payments, users, serial, server>>

-----------------------------------------------------------------------------
(* PATCH /bookings/:id/status, src/index.js:374-414 *)

\* src/index.js:392
ValidStatuses == {"accepted", "rejected", "pending", "paid", "cancelled"}

\* statusMap, src/index.js:383-389
StatusMap_Identity(st) == st
StatusMap(st) ==
    CASE st = "accepted"  -> "confirmed"
      [] st = "rejected"  -> "cancelled"
      [] st = "pending"   -> "pending"
      [] st = "paid"      -> "confirmed"
      [] st = "cancelled" -> "cancelled"

\* src/index.js:376-397
StartUpdateStatus(s) ==
    /\ CanStart(s)
    /\ \E id \in BookingArgs, st \in StatusArgs, e \in PatchEmails :
        LET arg == [NoArg EXCEPT !.id = id, !.status = st, !.email = e]
        IN  IF ~IsValidId(id) \/ st \notin ValidStatuses
            THEN Reject(s, "updateStatus", arg, 400)
            ELSE Begin(s, "updateStatus", arg, "updateBooking")
    /\ UNCHANGED <<tickets, bookings, payments, users, serial, server>>

\* src/index.js:399-413: updateOne by _id; any error answers 500
UpdateStatusWrite(s) ==
    /\ At(s, "updateStatus", "updateBooking")
    /\ LET a == req[s].arg
       IN  IF a.id \notin DOMAIN bookings
           THEN Respond(s, 200) /\ UNCHANGED bookings
           ELSE LET new == [bookings EXCEPT
                              ![a.id].status = a.status,
                              ![a.id].bookingStatus = StatusMap(a.status)]
                IN  IF DuplicateKey(new)
                    THEN Catch(s, DuplicateKeyError, 500) /\ UNCHANGED bookings
                    ELSE Respond(s, 200) /\ bookings' = new
    /\ UNCHANGED <<tickets, payments, users, serial, server>>

-----------------------------------------------------------------------------
(* POST /payments, src/index.js:435-523 *)

\* "Prevent double payment", src/index.js:453
AlreadyPaid_Never(b) == FALSE
AlreadyPaid(b) == b.status = "paid"

\* "Validate amount", src/index.js:469 (the request is refused when FALSE)
AmountMatches_Any(amount, b) == TRUE
AmountMatches(amount, b) == amount = b.totalPrice

\* src/index.js:437-442
StartRecordPayment(s) ==
    /\ CanStart(s)
    /\ \E id \in BookingArgs, am \in Amounts, e \in PayEmails, tx \in TxnIds,
          pm \in PayMethods :
        LET arg == [NoArg EXCEPT !.id = id, !.amount = am, !.email = e,
                                 !.txn = tx, !.method = pm]
        IN  IF ~IsValidId(id)
            THEN Reject(s, "recordPayment", arg, 400)
            ELSE Begin(s, "recordPayment", arg, "findBooking")
    /\ UNCHANGED <<tickets, bookings, payments, users, serial, server>>

\* src/index.js:444-471: findOne on bookings and the three guards
PayFindBooking(s) ==
    /\ At(s, "recordPayment", "findBooking")
    /\ LET a == req[s].arg
       IN  IF a.id \notin DOMAIN bookings
           THEN Respond(s, 404)
           ELSE IF AlreadyPaid(bookings[a.id])
           THEN Respond(s, 400)
           ELSE IF ~AmountMatches(a.amount, bookings[a.id])
           THEN Respond(s, 400)
           ELSE req' = [req EXCEPT ![s].pc = "insertPayment",
                                   ![s].doc = bookings[a.id]]
    /\ UNCHANGED <<tickets, bookings, payments, users, serial, server>>

\* src/index.js:473-494: insertOne on payments
PayInsertPayment(s) ==
    /\ At(s, "recordPayment", "insertPayment")
    /\ LET a == req[s].arg
       IN  payments' = Append(payments,
                 NewPayment(a.id, req[s].doc, a.email, a.txn, a.amount,
                            a.method))
    /\ req' = [req EXCEPT ![s].pc = "updateBooking"]
    /\ UNCHANGED <<tickets, bookings, users, serial, server>>

\* src/index.js:497-510 and 519-522: updateOne on bookings; an error
\* (the unique index refusing the write) answers 500
PayUpdateBooking(s) ==
    /\ At(s, "recordPayment", "updateBooking")
    /\ LET a == req[s].arg
           new == [bookings EXCEPT
                     ![a.id] = MarkPaid(bookings[a.id], a.txn, a.method)]
       IN  IF DuplicateKey(new)
           THEN Catch(s, DuplicateKeyError, 500) /\ UNCHANGED bookings
           ELSE /\ bookings' = new
                /\ req' = [req EXCEPT ![s].pc = "deductQuantity"]
    /\ UNCHANGED <<tickets, payments, users, serial, server>>

\* $inc on a ticket document; matches nothing when the ticket is gone
IncQuantity_Floor(tks, tid, delta) ==
    IF tid \in DOMAIN tks /\ tks[tid].quantity + delta >= InitQuantity - 1
    THEN [tks EXCEPT ![tid].quantity = @ + delta]
    ELSE tks
IncQuantity(tks, tid, delta) ==
    IF tid \in DOMAIN tks
    THEN [tks EXCEPT ![tid].quantity = @ + delta]
    ELSE tks

\* src/index.js:513-518: $inc quantity by -booking.quantity
PayDeductQuantity(s) ==
    /\ At(s, "recordPayment", "deductQuantity")
    /\ tickets' = IncQuantity(tickets, req[s].doc.ticketId,
                              -req[s].doc.quantity)
    /\ Respond(s, 200)
    /\ UNCHANGED <<bookings, payments, users, serial, server>>

-----------------------------------------------------------------------------
(* DELETE /bookings/:id, src/index.js:557-607 *)

\* "Restore ticket quantity if it was paid", src/index.js:592-595,
\* decided on the booking as read at line 566
WasPaid_Always(b) == TRUE
WasPaid(b) == b.status = "paid" \/ b.bookingStatus = "confirmed"

\* src/index.js:559-564
StartCancelBooking(s) ==
    /\ CanStart(s)
    /\ \E id \in BookingArgs, e \in Emails :
        LET arg == [NoArg EXCEPT !.id = id, !.email = e]
        IN  IF ~IsValidId(id)
            THEN Reject(s, "cancelBooking", arg, 400)
            ELSE Begin(s, "cancelBooking", arg, "findBooking")
    /\ UNCHANGED <<tickets, bookings, payments, users, serial, server>>

\* src/index.js:566-576
CancelFindBooking(s) ==
    /\ At(s, "cancelBooking", "findBooking")
    /\ LET a == req[s].arg
       IN  IF a.id \notin DOMAIN bookings
           THEN Respond(s, 404)
           ELSE IF bookings[a.id].userEmail # a.email
           THEN Respond(s, 403)
           ELSE req' = [req EXCEPT ![s].pc = "updateBooking",
                                   ![s].doc = bookings[a.id]]
    /\ UNCHANGED <<tickets, bookings, payments, users, serial, server>>

\* src/index.js:579-595: updateOne on bookings
CancelUpdateBooking(s) ==
    /\ At(s, "cancelBooking", "updateBooking")
    /\ bookings' = [bookings EXCEPT ![req[s].arg.id].status = "cancelled",
                                    ![req[s].arg.id].bookingStatus = "cancelled"]
    /\ IF WasPaid(req[s].doc)
       THEN req' = [req EXCEPT ![s].pc = "restoreQuantity"]
       ELSE Respond(s, 200)
    /\ UNCHANGED <<tickets, payments, users, serial, server>>

\* src/index.js:596-602: $inc quantity by booking.quantity
CancelRestoreQuantity(s) ==
    /\ At(s, "cancelBooking", "restoreQuantity")
    /\ tickets' = IncQuantity(tickets, req[s].doc.ticketId,
                              req[s].doc.quantity)
    /\ Respond(s, 200)
    /\ UNCHANGED <<bookings, payments, users, serial, server>>

-----------------------------------------------------------------------------
(* The booking runs *)

BookingTickets == [t \in BookTickets |-> Ticket(InitQuantity, "approved", FALSE)]

\* Ledgers the booking runs start from: empty, or one pending booking.
InitLedgers ==
    { <<>>, << NewBooking(1, BookingTickets[1], "u1", 1, "1A") >> }

InitBooking(ser) ==
    /\ server = "index.js"
    /\ tickets = BookingTickets
    /\ bookings \in InitLedgers
    /\ payments = <<>>
    /\ users = [e \in Emails |-> "customer"]
    /\ req = [s \in Slots |-> IdleReq]
    /\ serial = ser

Init == InitBooking(FALSE)

InitSerial == InitBooking(TRUE)

Next ==
    \E s \in Slots :
        \/ StartCreateBooking(s)
        \/ CreateFindTicket(s)
        \/ CreateInsertBooking(s)
        \/ StartUpdateStatus(s)
        \/ UpdateStatusWrite(s)
        \/ StartRecordPayment(s)
        \/ PayFindBooking(s)
        \/ PayInsertPayment(s)
        \/ PayUpdateBooking(s)
        \/ PayDeductQuantity(s)
        \/ StartCancelBooking(s)
        \/ CancelFindBooking(s)
        \/ CancelUpdateBooking(s)
        \/ CancelRestoreQuantity(s)

\* concurrent requests
Spec == Init /\ [][Next]_vars

\* each request completes before the next starts
SpecSerial == InitSerial /\ [][Next]_vars

-----------------------------------------------------------------------------
(* Role middlewares, src/index.js:67-85 *)

\* usersCollection.findOne({email}) followed by user?.role
RoleOf(us, email) == IF email \in DOMAIN us THEN us[email] ELSE NoRole

\* the synchronous head of the handler behind verifyADMIN, up to its first
\* store call: src/index.js:953-955, 862-870, 901-905
EnterAdminHandler(r) ==
    CASE r.op = "toggleAdvertise" ->
           IF ~IsValidId(r.arg.id)
           THEN [r EXCEPT !.pc = "done", !.code = 400]
           ELSE [r EXCEPT !.pc = "findTicket"]
      [] r.op = "verifyTicket" ->
           IF ~IsValidId(r.arg.id) \/ r.arg.status \notin {"approved", "rejected"}
           THEN [r EXCEPT !.pc = "done", !.code = 400]
           ELSE [r EXCEPT !.pc = "updateTicket"]
      [] r.op = "changeRole" ->
           IF r.arg.role \notin Roles
           THEN [r EXCEPT !.pc = "done", !.code = 400]
           ELSE [r EXCEPT !.pc = "updateRole"]
      [] r.op = "markFraud" -> [r EXCEPT !.pc = "markUser"]

\* src/index.js:70: user?.role !== "admin"
IsAdmin_FromBody(role, arg) == arg.role = "admin"
IsAdmin(role, arg) == role = "admin"

\* src/index.js:67-75
VerifyADMIN(s) ==
    /\ req[s].pc = "verifyADMIN"
    /\ IF ~IsAdmin(RoleOf(users, req[s].arg.email), req[s].arg)
       THEN Respond(s, 403)
       ELSE req' = [req EXCEPT ![s] = EnterAdminHandler(req[s])]
    /\ UNCHANGED <<tickets, bookings, payments, users, serial, server>>

\* the synchronous head of the handler behind verifyVENDOR, up to its first
\* store call: src/index.js:683-687, 715-720
EnterVendorHandler(r) ==
    CASE r.op = "addTicket" -> [r EXCEPT !.pc = "insertTicket"]
      [] r.op = "updateTicket" ->
           IF ~IsValidId(r.arg.id)
           THEN [r EXCEPT !.pc = "done", !.code = 400]
           ELSE [r EXCEPT !.pc = "findTicket"]

\* src/index.js:77-85
VerifyVENDOR(s) ==
    /\ req[s].pc = "verifyVENDOR"
    /\ IF RoleOf(users, req[s].arg.email) # "vendor"
       THEN Respond(s, 403)
       ELSE req' = [req EXCEPT ![s] = EnterVendorHandler(req[s])]
    /\ UNCHANGED <<tickets, bookings, payments, users, serial, server>>

(* PATCH /admin/tickets/advertise/:id, src/index.js:948-982 *)

\* src/index.js:970
MaxAdvertised == 6

\* countDocuments({isAdvertised: true, verificationStatus: "approved"}),
\* src/index.js:966-969
AdvertisedCount(tks) ==
    Cardinality({t \in DOMAIN tks : tks[t].isAdvertised
                                    /\ tks[t].verificationStatus = "approved"})

\* src/index.js:970
CapReached_OffByOne(count) == count > MaxAdvertised
CapReached(count) == count >= MaxAdvertised

\* src/index.js:948-951: the request, identified by verifyJWT, enters
\* verifyADMIN
StartToggleAdvertise(s) ==
    /\ CanStart(s)
    /\ \E id \in AdArgs, e \in AdminEmails :
        Begin(s, "toggleAdvertise", [NoArg EXCEPT !.id = id, !.email = e],
              "verifyADMIN")
    /\ UNCHANGED <<tickets, bookings, payments, users, serial, server>>

\* src/index.js:965: the count is taken only when switching on
NeedsCount_Always(ticket) == TRUE
NeedsCount(ticket) == ~ticket.isAdvertised

\* src/index.js:956-965
ToggleFindTicket(s) ==
    /\ At(s, "toggleAdvertise", "findTicket")
    /\ LET id == req[s].arg.id
       IN  IF id \notin DOMAIN tickets
           THEN Respond(s, 404)
           ELSE IF tickets[id].verificationStatus # "approved"
           THEN Respond(s, 400)
           ELSE req' = [req EXCEPT
                          ![s].doc = tickets[id],
                          ![s].pc = IF NeedsCount(tickets[id])
                                    THEN "countAdvertised"
                                    ELSE "updateTicket"]
    /\ UNCHANGED <<tickets, bookings, payments, users, serial, server>>

\* src/index.js:966-972
ToggleCountAdvertised(s) ==
    /\ At(s, "toggleAdvertise", "countAdvertised")
    /\ IF CapReached(AdvertisedCount(tickets))
       THEN Respond(s, 400)
       ELSE req' = [req EXCEPT ![s].pc = "updateTicket"]
    /\ UNCHANGED <<tickets, bookings, payments, users, serial, server>>

\* src/index.js:975: !ticket.isAdvertised, of the document read at 956
Toggled_Off(ticket) == FALSE
Toggled(ticket) == ~ticket.isAdvertised

\* src/index.js:973-980: $set isAdvertised to the negation of the value read
ToggleUpdateTicket(s) ==
    /\ At(s, "toggleAdvertise", "updateTicket")
    /\ LET id == req[s].arg.id
       IN  tickets' = IF id \in DOMAIN tickets
                      THEN [tickets EXCEPT
                              ![id].isAdvertised = Toggled(req[s].doc)]
                      ELSE tickets
    /\ Respond(s, 200)
    /\ UNCHANGED <<bookings, payments, users, serial, server>>

\* Catalogs the advertise runs start from: the first k tickets approved and
\* advertised, the last ticket in any moderation state, the others approved;
\* no more than the cap advertised and approved.
InitAdvertise(ser) ==
    /\ server = "index.js"
    /\ \E k \in 0..MaxAdvertised, adv \in BOOLEAN,
          vs \in {"approved", "pending", "rejected"} :
         tickets = [t \in 1..NumAdTickets |->
                      IF t = NumAdTickets
                      THEN Ticket(InitQuantity, vs, adv)
                      ELSE Ticket(InitQuantity, "approved", t <= k)]
    /\ AdvertisedCount(tickets) <= MaxAdvertised
    /\ bookings = <<>>
    /\ payments = <<>>
    /\ users = [e \in Emails \cup AdminEmails |->
                  IF e \in AdminEmails THEN "admin" ELSE "customer"]
    /\ req = [s \in Slots |-> IdleReq]
    /\ serial = ser

NextAdvertise ==
    \E s \in Slots :
        \/ StartToggleAdvertise(s)
        \/ VerifyADMIN(s)
        \/ ToggleFindTicket(s)
        \/ ToggleCountAdvertised(s)
        \/ ToggleUpdateTicket(s)

\* toggles, each completing before the next starts
SpecAdvertiseSerial == InitAdvertise(TRUE) /\ [][NextAdvertise]_vars

\* The catalog of the concurrent toggles: every ticket approved, the first
\* MaxAdvertised - 1 advertised: one below the cap.
InitAdvertiseRace ==
    /\ server = "index.js"
    /\ tickets = [t \in 1..NumAdTickets |->
                    Ticket(InitQuantity, "approved", t < MaxAdvertised)]
    /\ bookings = <<>>
    /\ payments = <<>>
    /\ users = [e \in Emails \cup AdminEmails |->
                  IF e \in AdminEmails THEN "admin" ELSE "customer"]
    /\ req = [s \in Slots |-> IdleReq]
    /\ serial = FALSE

\* toggles interleaved at every await
SpecAdvertiseRace == InitAdvertiseRace /\ [][NextAdvertise]_vars

(* PATCH /admin/tickets/:id/verify, src/index.js:854-880 *)

\* src/index.js:854-857
StartVerifyTicket(s) ==
    /\ CanStart(s)
    /\ \E id \in VerifyArgs, vs \in VerifyStatusArgs, e \in AdminEmails :
        Begin(s, "verifyTicket",
              [NoArg EXCEPT !.id = id, !.status = vs, !.email = e],
              "verifyADMIN")
    /\ UNCHANGED <<tickets, bookings, payments, users, serial, server>>

\* src/index.js:871-875: updateOne by _id, no upsert; the result is sent
\* whether or not a ticket matched
VerifyUpdateTicket(s) ==
    /\ At(s, "verifyTicket", "updateTicket")
    /\ LET id == req[s].arg.id
       IN  tickets' = IF id \in DOMAIN tickets
                      THEN [tickets EXCEPT
                              ![id].verificationStatus = req[s].arg.status]
                      ELSE tickets
    /\ Respond(s, 200)
    /\ UNCHANGED <<bookings, payments, users, serial, server>>

\* Catalogs the moderation runs start from: every ticket approved, the first
\* k advertised, k at the cap or one below it.
InitModeration(ser) ==
    /\ server = "index.js"
    /\ \E k \in {MaxAdvertised - 1, MaxAdvertised} :
         tickets = [t \in 1..NumAdTickets |->
                      Ticket(InitQuantity, "approved", t <= k)]
    /\ bookings = <<>>
    /\ payments = <<>>
    /\ users = [e \in Emails \cup AdminEmails |->
                  IF e \in AdminEmails THEN "admin" ELSE "customer"]
    /\ req = [s \in Slots |-> IdleReq]
    /\ serial = ser

NextModeration ==
    \E s \in Slots :
        \/ StartToggleAdvertise(s)
        \/ StartVerifyTicket(s)
        \/ VerifyADMIN(s)
        \/ ToggleFindTicket(s)
        \/ ToggleCountAdvertised(s)
        \/ ToggleUpdateTicket(s)
        \/ VerifyUpdateTicket(s)

\* verification decisions and toggles, each completing before the next starts
SpecModerationSerial == InitModeration(TRUE) /\ [][NextModeration]_vars

-----------------------------------------------------------------------------
(* POST /user: src/index.js:127-151, src/unnamed/part_000:84-110,           *)
(* src/unnamed/part_001:75-92                                              *)

\* userData.role = userData.role || "customer"
\* (index.js:135, part_000:92, part_001:81)
BodyRole(role) == IF role = "" THEN "customer" ELSE role

\* the three revisions agree up to the query; part_001 has no findOne
StartPostUser(s) ==
    /\ CanStart(s)
    /\ \E e \in UserEmailArgs, r \in RoleArgs :
        LET arg == [NoArg EXCEPT !.email = e, !.role = BodyRole(r)]
        IN  IF e = ""
            THEN Reject(s, "postUser", arg, 400)
            ELSE Begin(s, "postUser", arg,
                       IF server = "part_001" THEN "upsertUser" ELSE "findUser")
    /\ UNCHANGED <<tickets, bookings, payments, users, serial, server>>

\* the role written when a document exists; index.js:139-141, part_000:98-100
KeptRole_Body(existing, body) == body
KeptRole(existing, body) == existing

\* src/index.js:138-141: findOne, an existing document's role replaces the body's
PostUserFind(s) ==
    /\ At(s, "postUser", "findUser")
    /\ server = "index.js"
    /\ LET a == req[s].arg
       IN  req' = [req EXCEPT
                     ![s].pc = "upsertUser",
                     ![s].arg.role = IF users[a.email] # NoRole
                                     THEN KeptRole(users[a.email], a.role)
                                     ELSE a.role]
    /\ UNCHANGED <<tickets, bookings, payments, users, serial, server>>

\* src/unnamed/part_000:95-100: as above, and a new user is always a customer
PostUserFind_000(s) ==
    /\ At(s, "postUser", "findUser")
    /\ server = "part_000"
    /\ LET a == req[s].arg
       IN  req' = [req EXCEPT
                     ![s].pc = "upsertUser",
                     ![s].arg.role = IF users[a.email] = NoRole
                                     THEN "customer"
                                     ELSE KeptRole(users[a.email], a.role)]
    /\ UNCHANGED <<tickets, bookings, payments, users, serial, server>>

\* updateOne(query, {$set: userData}, {upsert: true});
\* index.js:143-146, part_000:102-105, part_001:83-87
PostUserUpsert(s) ==
    /\ At(s, "postUser", "upsertUser")
    /\ users' = [users EXCEPT ![req[s].arg.email] = req[s].arg.role]
    /\ Respond(s, 200)
    /\ UNCHANGED <<tickets, bookings, payments, serial, server>>

InitUsers(ser, revisions) ==
    /\ server \in revisions
    /\ tickets = BookingTickets
    /\ bookings = <<>>
    /\ payments = <<>>
    /\ users \in [Emails -> Roles \cup {NoRole}]
    /\ req = [s \in Slots |-> IdleReq]
    /\ serial = ser

NextUsers ==
    \E s \in Slots :
        \/ StartPostUser(s)
        \/ PostUserFind(s)
        \/ PostUserFind_000(s)
        \/ PostUserUpsert(s)

\* upserts, each completing before the next starts, on any revision
SpecUsersSerial == InitUsers(TRUE, Servers) /\ [][NextUsers]_vars

NextUsersIndex ==
    \E s \in Slots :
        \/ StartPostUser(s)
        \/ PostUserFind(s)
        \/ PostUserUpsert(s)

\* upserts on index.js alone, each completing before the next starts
SpecUsersIndexSerial == InitUsers(TRUE, {"index.js"}) /\ [][NextUsersIndex]_vars

(* PATCH /admin/users/:email/role, src/index.js:894-917 *)

\* src/index.js:894-897
StartChangeRole(s) ==
    /\ CanStart(s)
    /\ \E e \in Emails, target \in Emails, role \in RoleArgs :
        Begin(s, "changeRole",
              [NoArg EXCEPT !.email = e, !.target = target, !.role = role],
              "verifyADMIN")
    /\ UNCHANGED <<tickets, bookings, payments, users, serial, server>>

\* src/index.js:907-911: updateOne({email}, {$set: {role}}), no upsert
ChangeRoleUpdate(s) ==
    /\ At(s, "changeRole", "updateRole")
    /\ LET target == req[s].arg.target
       IN  users' = IF RoleOf(users, target) # NoRole
                    THEN [users EXCEPT ![target] = req[s].arg.role]
                    ELSE users
    /\ Respond(s, 200)
    /\ UNCHANGED <<tickets, bookings, payments, serial, server>>

(* POST /tickets, src/index.js:681-695 *)

\* src/index.js:681
StartAddTicket(s) ==
    /\ CanStart(s)
    /\ \E e \in Emails, fs \in AddFieldArgs :
        Begin(s, "addTicket", [NoArg EXCEPT !.email = e, !.fields = fs],
              "verifyVENDOR")
    /\ UNCHANGED <<tickets, bookings, payments, users, serial, server>>

\* the values a vendor's request body gives to the fields it carries
VendorBody ==
    [price |-> Price, quantity |-> 1, verificationStatus |-> "approved",
     isAdvertised |-> TRUE, isHidden |-> FALSE, vendorEmail |-> "u1"]

\* $set of the fields of a body on a document
SetFields(doc, body, fields) ==
    [f \in DOMAIN doc |-> IF f \in fields THEN body[f] ELSE doc[f]]

\* src/index.js:683-690: the body, with vendorEmail, verificationStatus and
\* isAdvertised overwritten, is inserted
AddTicketInsert(s) ==
    /\ At(s, "addTicket", "insertTicket")
    /\ tickets' = Append(tickets,
                         [SetFields(Ticket(InitQuantity, "pending", FALSE),
                                    VendorBody, req[s].arg.fields)
                            EXCEPT !.vendorEmail = req[s].arg.email,
                                   !.verificationStatus = "pending",
                                   !.isAdvertised = FALSE])
    /\ Respond(s, 200)
    /\ UNCHANGED <<bookings, payments, users, serial, server>>

(* PATCH /tickets/:id, src/index.js:713-741 *)

\* src/index.js:713
StartUpdateTicket(s) ==
    /\ CanStart(s)
    /\ \E e \in VendorEmails, id \in VendorTicketArgs, fs \in UpdateFieldArgs :
        Begin(s, "updateTicket",
              [NoArg EXCEPT !.email = e, !.id = id, !.fields = fs],
              "verifyVENDOR")
    /\ UNCHANGED <<tickets, bookings, payments, users, serial, server>>

\* src/index.js:722-730: the ownership check
UpdateTicketFind(s) ==
    /\ At(s, "updateTicket", "findTicket")
    /\ LET id == req[s].arg.id
       IN  IF id \notin DOMAIN tickets
           THEN Respond(s, 404)
           ELSE IF tickets[id].vendorEmail # req[s].arg.email
           THEN Respond(s, 403)
           ELSE req' = [req EXCEPT ![s].pc = "updateTicket",
                                   ![s].doc = tickets[id]]
    /\ UNCHANGED <<tickets, bookings, payments, users, serial, server>>

\* src/index.js:731-736: delete ticketData._id; $set: ticketData
UpdateTicketWrite(s) ==
    /\ At(s, "updateTicket", "updateTicket")
    /\ LET id == req[s].arg.id
       IN  tickets' = IF id \in DOMAIN tickets
                      THEN [tickets EXCEPT
                              ![id] = SetFields(@, VendorBody, req[s].arg.fields)]
                      ELSE tickets
    /\ Respond(s, 200)
    /\ UNCHANGED <<bookings, payments, users, serial, server>>

(* PATCH /admin/users/:email/fraud, src/index.js:920-945 *)

\* src/index.js:920-923
StartMarkFraud(s) ==
    /\ CanStart(s)
    /\ \E e \in AdminEmails, target \in FraudArgs :
        Begin(s, "markFraud", [NoArg EXCEPT !.email = e, !.target = target],
              "verifyADMIN")
    /\ UNCHANGED <<tickets, bookings, payments, users, serial, server>>

\* src/index.js:929-932: $set isFraud on the user; the role is not touched
FraudMarkUser(s) ==
    /\ At(s, "markFraud", "markUser")
    /\ req' = [req EXCEPT ![s].pc = "hideTickets"]
    /\ UNCHANGED <<tickets, bookings, payments, users, serial, server>>

\* src/index.js:934-939: updateMany on the vendor's tickets
FraudHideTickets(s) ==
    /\ At(s, "markFraud", "hideTickets")
    /\ tickets' = [t \in DOMAIN tickets |->
                     IF tickets[t].vendorEmail = req[s].arg.target
                     THEN [tickets[t] EXCEPT !.isHidden = TRUE]
                     ELSE tickets[t]]
    /\ Respond(s, 200)
    /\ UNCHANGED <<bookings, payments, users, serial, server>>

\* Vendor runs start from a ticket of u1, pending or rejected, and an
\* approved ticket of u2; both are vendors.
InitVendor(ser) ==
    /\ server = "index.js"
    /\ \E vs \in {"pending", "rejected"} :
         tickets = << [Ticket(InitQuantity, vs, FALSE)
                         EXCEPT !.vendorEmail = "u1"],
                      [Ticket(InitQuantity, "approved", FALSE)
                         EXCEPT !.vendorEmail = "u2"] >>
    /\ bookings = <<>>
    /\ payments = <<>>
    /\ users = [e \in Emails \cup AdminEmails |->
                  IF e \in AdminEmails THEN "admin" ELSE "vendor"]
    /\ req = [s \in Slots |-> IdleReq]
    /\ serial = ser

NextVendor ==
    \E s \in Slots :
        \/ StartAddTicket(s)
        \/ StartUpdateTicket(s)
        \/ StartMarkFraud(s)
        \/ VerifyVENDOR(s)
        \/ VerifyADMIN(s)
        \/ AddTicketInsert(s)
        \/ UpdateTicketFind(s)
        \/ UpdateTicketWrite(s)
        \/ FraudMarkUser(s)
        \/ FraudHideTickets(s)

\* vendor ticket requests and the fraud action, one request at a time
SpecVendorSerial == InitVendor(TRUE) /\ [][NextVendor]_vars

\* Role runs start from any stored roles of the two users, NoRole standing
\* for a user without a record.
InitRoles(ser) ==
    /\ server = "index.js"
    /\ tickets = <<>>
    /\ bookings = <<>>
    /\ payments = <<>>
    /\ users \in [Emails -> Roles \cup {NoRole}]
    /\ req = [s \in Slots |-> IdleReq]
    /\ serial = ser

NextRoles ==
    \E s \in Slots :
        \/ StartChangeRole(s)
        \/ StartAddTicket(s)
        \/ VerifyADMIN(s)
        \/ VerifyVENDOR(s)
        \/ ChangeRoleUpdate(s)
        \/ AddTicketInsert(s)

\* role changes and vendor requests, interleaved at every await
SpecRoles == InitRoles(FALSE) /\ [][NextRoles]_vars

\* Upserts against role changes start from an admin u1 and a second user
\* with any role.
InitUsersRace ==
    /\ server = "index.js"
    /\ tickets = <<>>
    /\ bookings = <<>>
    /\ payments = <<>>
    /\ \E r \in Roles : users = [e \in Emails |-> IF e = "u1" THEN "admin" ELSE r]
    /\ req = [s \in Slots |-> IdleReq]
    /\ serial = FALSE

NextUsersRace ==
    \E s \in Slots :
        \/ StartPostUser(s)
        \/ PostUserFind(s)
        \/ PostUserUpsert(s)
        \/ StartChangeRole(s)
        \/ VerifyADMIN(s)
        \/ ChangeRoleUpdate(s)

\* POST /user and the admin role change, interleaved at every await
SpecUsersRace == InitUsersRace /\ [][NextUsersRace]_vars

(* Store failures: a call on a collection rejects, src/index.js:67-85,    *)
(* 519-522, 948-982                                                        *)

\* an error of the driver other than the duplicate key error
StoreError == 1
\* the handler ended and nothing was sent
NoResponse == 0

\* the await the request is at sits inside a try block: every handler but
\* the advertise route has one (src/index.js:436-522 against 952-981), the
\* two role middlewares have none (67-85)
CaughtLocally(r) == r.pc \notin {"verifyADMIN", "verifyVENDOR"}
                    /\ r.op # "toggleAdvertise"

\* The store call request s is waiting on rejects.  Inside a try block the
\* catch answers 500.  Outside one the async function's promise rejects:
\* a router that ignores the returned promise sends nothing, a router that
\* passes rejections to the default error handler answers 500.
StoreFails(s) ==
    /\ InFlight(s)
    /\ IF CaughtLocally(req[s])
       THEN Catch(s, StoreError, 500)
       ELSE \E code \in {NoResponse, 500} : Catch(s, StoreError, code)
    /\ UNCHANGED <<tickets, bookings, payments, users, serial, server>>

\* Failure runs start from a catalog one below the cap and one pending
\* booking.
InitFailures(ser) ==
    /\ server = "index.js"
    /\ tickets = [t \in 1..NumAdTickets |->
                    Ticket(InitQuantity, "approved", t < MaxAdvertised)]
    /\ bookings = << NewBooking(1, tickets[1], "u1", 1, "1A") >>
    /\ payments = <<>>
    /\ users = [e \in Emails \cup AdminEmails |->
                  IF e \in AdminEmails THEN "admin" ELSE "customer"]
    /\ req = [s \in Slots |-> IdleReq]
    /\ serial = ser

NextFailures ==
    \E s \in Slots :
        \/ StartToggleAdvertise(s)
        \/ VerifyADMIN(s)
        \/ ToggleFindTicket(s)
        \/ ToggleCountAdvertised(s)
        \/ ToggleUpdateTicket(s)
        \/ StartRecordPayment(s)
        \/ PayFindBooking(s)
        \/ PayInsertPayment(s)
        \/ PayUpdateBooking(s)
        \/ PayDeductQuantity(s)
        \/ StoreFails(s)

\* payments and toggles over a store that can fail, one request at a time
SpecFailuresSerial == InitFailures(TRUE) /\ [][NextFailures]_vars

-----------------------------------------------------------------------------
(* Properties *)

Done(s) == req[s].pc = "done"

\* request s has been answered and no later request has arrived
Latest(s) == Done(s) /\ (s = NumSlots \/ req[s + 1].pc = "idle")

\* the bookings of a ledger that hold seat S of ticket T
HoldersOf(bks, T, S) ==
    {i \in DOMAIN bks : /\ bks[i].ticketId = T
                        /\ bks[i].seatNumber = S
                        /\ bks[i].bookingStatus \in {"pending", "confirmed"}}

PaymentsFor(pays, id) == {i \in DOMAIN pays : pays[i].bookingId = id}

\* C1: under any interleaving of the four booking handlers, for every
\* ticket T and seat S at most one booking with ticketId T and seatNumber S
\* has bookingStatus pending or confirmed.
C1_NoDoubleBooking ==
    \A T \in BookTickets, S \in Seats :
        Cardinality(HoldersOf(bookings, T, S)) <= 1

\* a seat that was cancelled, booked again, and then refused to a third request
C1_Witness ==
    \E T \in BookTickets, S \in Seats, s \in Slots :
        /\ Cardinality(HoldersOf(bookings, T, S)) = 1
        /\ \E i \in DOMAIN bookings : /\ bookings[i].ticketId = T
                                      /\ bookings[i].seatNumber = S
                                      /\ bookings[i].bookingStatus = "cancelled"
        /\ Done(s) /\ req[s].op = "createBooking" /\ req[s].code = 409
        /\ req[s].doc.ticketId = T /\ req[s].doc.seatNumber = S

\* the POST /bookings requests of the run that name ticket T and seat S
CreatesOf(T, S) ==
    {s \in Slots : /\ req[s].op = "createBooking"
                   /\ req[s].arg.id = T
                   /\ req[s].arg.seat = S}

\* the run consists of N >= 2 POST /bookings requests for (T, S), all
\* answered, and the seat was free before the first of them
OnlyCreatesOf(T, S) ==
    /\ Cardinality(CreatesOf(T, S)) >= 2
    /\ \A s \in Slots : req[s].pc = "idle" \/ (s \in CreatesOf(T, S) /\ Done(s))
    /\ HoldersOf(req[1].pre.bookings, T, S) = {}

\* C2: N >= 2 concurrent POST /bookings for the same existing ticket and the
\* same caller-supplied seat, free beforehand: exactly one answers 201 and
\* inserts a booking, every other answers 409 and inserts nothing.
C2_ConcurrentCreation ==
    \A T \in BookTickets, S \in Seats :
        OnlyCreatesOf(T, S) =>
            /\ Cardinality({s \in CreatesOf(T, S) : req[s].code = 201}) = 1
            /\ \A s \in CreatesOf(T, S) : req[s].code \in {201, 409}
            /\ Len(bookings) = Len(req[1].pre.bookings) + 1
            /\ Cardinality(HoldersOf(bookings, T, S)) = 1

\* two such requests overlapped: the second arrived before the first inserted,
\* the first was answered 201 and the second 409
C2_Witness ==
    \E T \in BookTickets, S \in Seats :
        /\ OnlyCreatesOf(T, S)
        /\ req[2].pre.bookings = req[1].pre.bookings
        /\ req[1].code = 201
        /\ req[2].code = 409

\* requests s and s+1 are POST /payments for the same booking, pending and
\* without a payment before s, both with amount equal to its totalPrice
PaidTwice(s) ==
    /\ s + 1 \in Slots
    /\ Latest(s + 1)
    /\ req[s].op = "recordPayment" /\ req[s + 1].op = "recordPayment"
    /\ req[s + 1].arg.id = req[s].arg.id
    /\ req[s].arg.id \in DOMAIN req[s].pre.bookings
    /\ LET b == req[s].pre.bookings[req[s].arg.id]
       IN  /\ b.status = "pending" /\ b.bookingStatus = "pending"
           /\ PaymentsFor(req[s].pre.payments, req[s].arg.id) = {}
           /\ req[s].arg.amount = b.totalPrice
           /\ req[s + 1].arg.amount = b.totalPrice

\* C3: RecordPayment twice in succession on a pending booking with the right
\* amount, each call run to completion: the first succeeds, the second is
\* rejected (400, already paid); afterwards the booking has exactly one
\* Payment record and its ticket's quantity is lower by the booking's
\* quantity, once.
C3_NoDoubleSettlement ==
    \A s \in Slots :
        PaidTwice(s) =>
            LET id == req[s].arg.id
                b == req[s].pre.bookings[id]
            IN  /\ req[s].code = 200
                /\ req[s + 1].code = 400
                /\ Cardinality(PaymentsFor(payments, id)) = 1
                /\ tickets[b.ticketId].quantity
                     = req[s].pre.tickets[b.ticketId].quantity - b.quantity
                /\ bookings[id].status = "paid"

C3_Witness ==
    \E s \in Slots : PaidTwice(s) /\ req[s].code = 200 /\ req[s + 1].code = 400

\* request s is a POST /payments for an existing unpaid booking with an
\* amount other than its totalPrice
Mispriced(s) ==
    /\ Latest(s)
    /\ req[s].op = "recordPayment"
    /\ req[s].arg.id \in DOMAIN req[s].pre.bookings
    /\ req[s].pre.bookings[req[s].arg.id].status # "paid"
    /\ req[s].arg.amount # req[s].pre.bookings[req[s].arg.id].totalPrice

\* C4: RecordPayment with an amount different from the stored totalPrice of
\* an existing unpaid booking answers 400, inserts no Payment record and
\* leaves the booking and the ticket's quantity unchanged.
C4_PriceIntegrity ==
    \A s \in Slots :
        Mispriced(s) =>
            /\ req[s].code = 400
            /\ payments = req[s].pre.payments
            /\ bookings = req[s].pre.bookings
            /\ tickets = req[s].pre.tickets

C4_Witness ==
    \E s \in Slots :
        /\ Mispriced(s)
        /\ req[s].code = 400
        /\ req[s].pre.bookings[req[s].arg.id].bookingStatus = "pending"

\* C5: from at most 6 advertised and approved tickets, after any sequence of
\* ToggleAdvertise calls, each completing before the next begins, at most 6
\* tickets are advertised and approved.
C5_AdvertiseCap ==
    Cardinality({t \in DOMAIN tickets :
                    /\ tickets[t].isAdvertised = TRUE
                    /\ tickets[t].verificationStatus = "approved"}) <= 6

\* six tickets advertised, and turning a seventh on was refused
C5_Witness ==
    \E s \in Slots :
        /\ Done(s) /\ req[s].op = "toggleAdvertise" /\ req[s].code = 400
        /\ req[s].doc # NoDoc /\ ~req[s].doc.isAdvertised
        /\ Cardinality({t \in DOMAIN tickets :
                          /\ tickets[t].isAdvertised
                          /\ tickets[t].verificationStatus = "approved"}) = 6
        /\ \E t \in Slots : Done(t) /\ req[t].op = "toggleAdvertise"
                            /\ req[t].code = 200 /\ ~req[t].doc.isAdvertised

\* C6: a POST /user for an email that has a user record with role r leaves
\* the stored role equal to r, whatever role the body carries, when no other
\* request runs concurrently. (Fails on the revision src/unnamed/part_001.)
C6_RolePreserved ==
    \A s \in Slots :
        (/\ Latest(s)
         /\ req[s].op = "postUser"
         /\ req[s].arg.email \in Emails
         /\ req[s].pre.users[req[s].arg.email] # NoRole)
        => users[req[s].arg.email] = req[s].pre.users[req[s].arg.email]

\* request s is a DELETE /bookings/:id by the owner of an existing booking
CancelledByOwner(s) ==
    /\ Latest(s)
    /\ req[s].op = "cancelBooking"
    /\ req[s].arg.id \in DOMAIN req[s].pre.bookings
    /\ req[s].arg.email = req[s].pre.bookings[req[s].arg.id].userEmail

\* C7: CancelBooking by the owner: a confirmed booking's quantity is added
\* back to its ticket, exactly; a pending, never paid booking leaves the
\* ticket's quantity unchanged; either way the booking ends cancelled.
C7_CancellationReconciliation ==
    \A s \in Slots :
        CancelledByOwner(s) =>
            LET id == req[s].arg.id
                b == req[s].pre.bookings[id]
                before == req[s].pre.tickets[b.ticketId].quantity
                after == tickets[b.ticketId].quantity
            IN  /\ b.bookingStatus = "confirmed" => after = before + b.quantity
                /\ (/\ b.bookingStatus = "pending"
                    /\ PaymentsFor(req[s].pre.payments, id) = {})
                       => after = before
                /\ b.bookingStatus \in {"confirmed", "pending"}
                       => bookings[id].bookingStatus = "cancelled"

\* a paid booking was cancelled and its quantity restored
C7_Witness ==
    \E s \in Slots :
        /\ CancelledByOwner(s)
        /\ req[s].pre.bookings[req[s].arg.id].bookingStatus = "confirmed"
        /\ req[s].pre.bookings[req[s].arg.id].status = "paid"
        /\ req[s].code = 200
        /\ tickets[req[s].doc.ticketId].quantity = InitQuantity

\* C8: once a booking's bookingStatus is cancelled, no UpdateBookingStatus,
\* RecordPayment or CancelBooking call changes it to pending or confirmed.
\* (Fails: PATCH with pending, accepted or paid, and POST /payments, revive it.)
C8_CancelledIsAbsorbing ==
    [][\A i \in DOMAIN bookings :
          bookings[i].bookingStatus = "cancelled"
              => bookings'[i].bookingStatus = "cancelled"]_vars

\* the transitions of the lifecycle, spec section 4.1
AllowedTransitions ==
    { <<"pending", "confirmed">>, <<"pending", "cancelled">>,
      <<"confirmed", "cancelled">> }

\* C9: every step that changes a booking's bookingStatus is pending ->
\* confirmed, pending -> cancelled or confirmed -> cancelled; a confirmed
\* booking never becomes pending again through UpdateBookingStatus.
\* (Fails: PATCH writes whatever status it is given.)
C9_TransitionTable ==
    [][\A i \in DOMAIN bookings :
          bookings'[i].bookingStatus # bookings[i].bookingStatus
              => <<bookings[i].bookingStatus, bookings'[i].bookingStatus>>
                     \in AllowedTransitions]_vars

\* C10: a request whose store write the unique index refuses is answered 409,
\* not 500, whichever handler issued the write, and leaves the stores as they
\* were before the request. (Fails: PATCH /bookings/:id/status and
\* POST /payments answer 500, the latter after inserting the Payment.)
C10_SeatConflictIs409 ==
    \A s \in Slots :
        (Done(s) /\ req[s].err = DuplicateKeyError) =>
            /\ req[s].code = 409
            /\ Latest(s) => Store = req[s].pre

\* request s is a POST /payments for an existing pending booking with amount
\* equal to its totalPrice
Settles(s) ==
    /\ Latest(s)
    /\ req[s].op = "recordPayment"
    /\ req[s].arg.id \in DOMAIN req[s].pre.bookings
    /\ LET b == req[s].pre.bookings[req[s].arg.id]
       IN  /\ b.status = "pending" /\ b.bookingStatus = "pending"
           /\ req[s].arg.amount = b.totalPrice

\* C11: RecordPayment on an existing pending booking with amount equal to
\* totalPrice, without concurrent requests: one new Payment record for the
\* booking; the booking at status paid / bookingStatus confirmed with the
\* request's transaction id, payment method and payment timestamp; the
\* ticket's quantity lower by exactly the booking's quantity.
C11_SettlementEffects ==
    \A s \in Slots :
        Settles(s) =>
            LET id == req[s].arg.id
                b == req[s].pre.bookings[id]
            IN  /\ req[s].code = 200
                /\ Len(payments) = Len(req[s].pre.payments) + 1
                /\ SubSeq(payments, 1, Len(req[s].pre.payments))
                     = req[s].pre.payments
                /\ payments[Len(payments)].bookingId = id
                /\ payments[Len(payments)].transactionId = req[s].arg.txn
                /\ payments[Len(payments)].amount = b.totalPrice
                /\ bookings[id].status = "paid"
                /\ bookings[id].bookingStatus = "confirmed"
                /\ bookings[id].transactionId = req[s].arg.txn
                /\ bookings[id].paymentMethod
                     = (IF req[s].arg.method = "" THEN "Credit Card"
                                                  ELSE req[s].arg.method)
                /\ bookings[id].paymentDate = payments[Len(payments)].paymentDate
                /\ bookings[id].paymentDate # NoTxn
                /\ tickets[b.ticketId].quantity
                     = req[s].pre.tickets[b.ticketId].quantity - b.quantity
                /\ \A t \in DOMAIN tickets \ {b.ticketId} :
                       tickets[t] = req[s].pre.tickets[t]

C11_Witness ==
    \E s \in Slots :
        /\ Settles(s) /\ req[s].code = 200
        /\ bookings[req[s].arg.id].quantity = 2
        /\ tickets[bookings[req[s].arg.id].ticketId].quantity = InitQuantity - 2

\* request s is a POST /bookings that answered 201
Created(s) == Latest(s) /\ req[s].op = "createBooking" /\ req[s].code = 201

\* C12: a successful CreateBooking for ticket T and quantity q inserts exactly
\* one booking, with status pending, bookingStatus pending, unitPrice equal
\* to T.price and totalPrice equal to T.price * q, and leaves T.quantity
\* unchanged.
C12_CreationEffects ==
    \A s \in Slots :
        Created(s) =>
            LET T == req[s].arg.id
                q == req[s].arg.qty
                n == Len(req[s].pre.bookings)
            IN  /\ Len(bookings) = n + 1
                /\ SubSeq(bookings, 1, n) = req[s].pre.bookings
                /\ bookings[n + 1].ticketId = T
                /\ bookings[n + 1].quantity = q
                /\ bookings[n + 1].status = "pending"
                /\ bookings[n + 1].bookingStatus = "pending"
                /\ bookings[n + 1].unitPrice = req[s].pre.tickets[T].price
                /\ bookings[n + 1].totalPrice = req[s].pre.tickets[T].price * q
                /\ tickets = req[s].pre.tickets
                /\ payments = req[s].pre.payments

C12_Witness ==
    \E s \in Slots :
        /\ Created(s) /\ req[s].arg.qty = 2
        /\ bookings[Len(bookings)].totalPrice = 2 * Price
        /\ tickets[req[s].arg.id].quantity = InitQuantity

\* request s is a DELETE /bookings/:id by the owner of a booking that was
\* already cancelled when s arrived
Recancels(s) ==
    /\ Latest(s)
    /\ req[s].op = "cancelBooking"
    /\ req[s].arg.id \in DOMAIN req[s].pre.bookings
    /\ req[s].pre.bookings[req[s].arg.id].bookingStatus = "cancelled"
    /\ req[s].pre.bookings[req[s].arg.id].userEmail = req[s].arg.email

\* C13: a CancelBooking on an already cancelled booking, run after the first
\* cancellation has ended, answers 200 and leaves the ticket's quantity
\* unchanged: the quantity of a paid booking is restored at most once over
\* consecutive cancellations.
C13_NoSecondRestore ==
    \A s \in Slots :
        Recancels(s) =>
            /\ req[s].code = 200
            /\ tickets = req[s].pre.tickets
            /\ bookings[req[s].arg.id].bookingStatus = "cancelled"

\* pay, cancel, cancel: the first cancellation restored, the second did not
C13_Witness ==
    \E s \in Slots :
        /\ s >= 3
        /\ Recancels(s)
        /\ req[s - 1].op = "cancelBooking" /\ req[s - 1].arg = req[s].arg
        /\ req[s - 1].code = 200
        /\ req[s - 2].op = "recordPayment" /\ req[s - 2].code = 200
        /\ req[s - 2].arg.id = req[s].arg.id
        /\ LET T == bookings[req[s].arg.id].ticketId
           IN  /\ req[s - 1].pre.tickets[T].quantity
                    = req[s - 2].pre.tickets[T].quantity
                        - bookings[req[s].arg.id].quantity
               /\ tickets[T].quantity = req[s - 2].pre.tickets[T].quantity

\* the requester of s may act on booking b: its owner, the vendor of its
\* ticket, or an admin
MayUpdate(s, b) ==
    \/ req[s].arg.email = b.userEmail
    \/ req[s].arg.email = req[s].pre.tickets[b.ticketId].vendorEmail
    \/ /\ req[s].arg.email \in DOMAIN req[s].pre.users
       /\ req[s].pre.users[req[s].arg.email] = "admin"

\* C14: UpdateBookingStatus changes a booking only when the requester is its
\* owner, the vendor of its ticket, or an admin; a request by anybody else
\* leaves the booking unchanged.
C14_UpdateStatusAuthorized ==
    \A s \in Slots :
        ( /\ Latest(s)
          /\ req[s].op = "updateStatus"
          /\ req[s].arg.id \in DOMAIN req[s].pre.bookings
          /\ ~MayUpdate(s, req[s].pre.bookings[req[s].arg.id]) )
        => bookings[req[s].arg.id] = req[s].pre.bookings[req[s].arg.id]

\* request s is a toggle by an admin of a ticket that was advertised when s
\* arrived
TogglesOff(s) ==
    /\ Latest(s)
    /\ req[s].op = "toggleAdvertise"
    /\ RoleOf(req[s].pre.users, req[s].arg.email) = "admin"
    /\ req[s].arg.id \in DOMAIN req[s].pre.tickets
    /\ req[s].pre.tickets[req[s].arg.id].isAdvertised

\* C15 as stated: for every existing ticket with isAdvertised = true, a
\* ToggleAdvertise call by an admin succeeds and sets isAdvertised to false,
\* whatever the advertised count and whatever the ticket's
\* verificationStatus.
C15_ToggleOffAlways ==
    \A s \in Slots :
        TogglesOff(s) =>
            /\ req[s].code = 200
            /\ ~tickets[req[s].arg.id].isAdvertised

\* C15, amended: for every existing approved ticket with isAdvertised = true,
\* a ToggleAdvertise call by an admin succeeds and sets isAdvertised to
\* false, whatever the advertised count; on an advertised ticket that is not
\* approved the call answers 400 and changes nothing.
C15_ToggleOffApproved ==
    \A s \in Slots :
        TogglesOff(s) =>
            IF req[s].pre.tickets[req[s].arg.id].verificationStatus = "approved"
            THEN /\ req[s].code = 200
                 /\ ~tickets[req[s].arg.id].isAdvertised
            ELSE /\ req[s].code = 400
                 /\ tickets = req[s].pre.tickets

\* an advertised ticket switched off while the cap was reached
C15_Witness ==
    \E s \in Slots :
        /\ TogglesOff(s)
        /\ AdvertisedCount(req[s].pre.tickets) = MaxAdvertised
        /\ req[s].code = 200
        /\ AdvertisedCount(tickets) = MaxAdvertised - 1

\* the role a gate asks for
GateRole(pc) == IF pc = "verifyADMIN" THEN "admin" ELSE "vendor"
Gates == {"verifyADMIN", "verifyVENDOR"}
GatedOps == {"changeRole", "addTicket", "toggleAdvertise", "verifyTicket"}
RequiredRole(op) == IF op = "addTicket" THEN "vendor" ELSE "admin"

\* request t got past its role gate
Passed(t) == Done(t) /\ req[t].op \in GatedOps /\ req[t].code # 403
Refused(t) == Done(t) /\ req[t].op \in GatedOps /\ req[t].code = 403

\* request s is the only role change aimed at user e, it answered 200 and
\* its new role was already stored when request t arrived
ChangedBefore(s, t, e) ==
    /\ req[s].op = "changeRole" /\ req[s].arg.target = e
    /\ Done(s) /\ req[s].code = 200
    /\ \A u \in Slots \ {s} :
           ~(req[u].op = "changeRole" /\ req[u].arg.target = e)
    /\ req[s].pre.users[e] # req[s].arg.role
    /\ req[t].pre.users[e] = req[s].arg.role

\* a gated request t that arrived after role change s is decided by the
\* role s stored
DecidedByChange(s, t) ==
    (Done(t) /\ req[t].op \in GatedOps
       /\ ChangedBefore(s, t, req[t].arg.email)) =>
        IF req[s].arg.role = RequiredRole(req[t].op)
        THEN Passed(t) ELSE Refused(t)

\* C16: a vendor- or admin-gated request gets past its gate exactly when the
\* role stored for its user at the moment of the check is the required one
\* (a user without a record is answered 403); and once an admin's role
\* change for a user is stored, every gated request of that user arriving
\* afterwards is decided by the new role.
C16_RoleGating ==
    [][ /\ \A s \in Slots :
             (req[s].pc \in Gates /\ req'[s].pc # req[s].pc) =>
                 IF RoleOf(users, req[s].arg.email) = GateRole(req[s].pc)
                 THEN ~(req'[s].pc = "done" /\ req'[s].code = 403)
                 ELSE req'[s].pc = "done" /\ req'[s].code = 403
        /\ \A s, t \in Slots : DecidedByChange(s, t)'
      ]_vars

\* a customer is refused POST /tickets, is made vendor, and then adds a ticket
C16_Witness ==
    \E r, s, t \in Slots :
        /\ r < s /\ s < t
        /\ req[r].op = "addTicket" /\ req[r].arg = req[t].arg /\ Refused(r)
        /\ ChangedBefore(s, t, req[t].arg.email)
        /\ req[s].pre.users[req[t].arg.email] = "customer"
        /\ req[t].op = "addTicket" /\ Passed(t)
        /\ Len(tickets) = 1 /\ tickets[1].vendorEmail = req[t].arg.email

\* the status codes of the error taxonomy
ErrorCodes == {400, 401, 403, 404, 409, 500}

\* C17: when a store operation fails during a request, the request still
\* ends with a response whose status is one of 400, 401, 403, 404, 409, 500;
\* this covers every handler, the role middlewares and ToggleAdvertise
\* included.
C17_NoFailureEscapes ==
    \A s \in Slots :
        req[s].err # NoError =>
            req[s].pc = "done" /\ req[s].code \in ErrorCodes

\* C18: every ticket's quantity is an integer >= 0 in every state reachable
\* by CreateBooking, RecordPayment, UpdateBookingStatus and CancelBooking
\* calls from tickets with quantity >= 0.
C18_QuantityNonNegative ==
    \A t \in DOMAIN tickets :
        tickets[t].quantity \in Int /\ tickets[t].quantity >= 0

\* the POST /payments requests for booking id that answered 200
SettlementsOf(id) ==
    {s \in Slots : /\ req[s].op = "recordPayment" /\ req[s].arg.id = id
                   /\ Done(s) /\ req[s].code = 200}

\* C19: in every state reached by completed CreateBooking,
\* UpdateBookingStatus, RecordPayment and CancelBooking calls run one after
\* another, every booking has at most one Payment record and its ticket was
\* decremented for it at most once, also when UpdateBookingStatus acts on a
\* paid booking between two RecordPayment calls.
C19_OnePaymentPerBooking ==
    \A id \in DOMAIN bookings :
        /\ Cardinality(PaymentsFor(payments, id)) <= 1
        /\ Cardinality(SettlementsOf(id)) <= 1

\* the whole run is two POST /payments, s and t, for the same booking, which
\* was pending and without payment when the first arrived; both answered 200
BothSettled(s, t) ==
    /\ s < t
    /\ \A u \in Slots \ {s, t} : req[u].pc = "idle"
    /\ req[s].op = "recordPayment" /\ req[t].op = "recordPayment"
    /\ req[s].arg.id = req[t].arg.id
    /\ Done(s) /\ Done(t)
    /\ req[s].code = 200 /\ req[t].code = 200
    /\ req[s].arg.id \in DOMAIN req[s].pre.bookings
    /\ req[s].pre.bookings[req[s].arg.id].status = "pending"
    /\ PaymentsFor(req[s].pre.payments, req[s].arg.id) = {}

\* C20: two RecordPayment handlers for the same pending booking, interleaved
\* at store-call granularity, can both read the booking before either
\* writes status paid; whenever both pass the already-paid guard the run
\* ends with two Payment records for the booking and the ticket's quantity
\* decremented twice by the booking's quantity.
C20_DoubleSettlementRace ==
    \A s, t \in Slots :
        BothSettled(s, t) =>
            LET id == req[s].arg.id
                b == req[s].pre.bookings[id]
            IN  /\ req[s].doc.status = "pending"
                /\ req[t].doc.status = "pending"
                /\ Cardinality(PaymentsFor(payments, id)) = 2
                /\ tickets[b.ticketId].quantity
                     = req[s].pre.tickets[b.ticketId].quantity - 2 * b.quantity
                /\ bookings[id].status = "paid"

\* the interleaving exists
C20_Witness ==
    \E s, t \in Slots :
        /\ BothSettled(s, t)
        /\ Len(payments) = 2
        /\ tickets[1].quantity = InitQuantity - 2

\* the whole run is two toggles, s and t, of two different tickets that were
\* approved and not advertised when the first arrived
TwoSwitchOns(s, t) ==
    /\ s < t
    /\ \A u \in Slots \ {s, t} : req[u].pc = "idle"
    /\ req[s].op = "toggleAdvertise" /\ req[t].op = "toggleAdvertise"
    /\ Done(s) /\ Done(t)
    /\ req[s].arg.id # req[t].arg.id
    /\ \A u \in {s, t} :
           /\ req[u].arg.id \in DOMAIN req[s].pre.tickets
           /\ req[s].pre.tickets[req[u].arg.id].verificationStatus = "approved"
           /\ ~req[s].pre.tickets[req[u].arg.id].isAdvertised

\* C21: two concurrent ToggleAdvertise calls that switch on two different
\* approved, non-advertised tickets can both pass the count check before
\* either writes; each call that answers 200 has advertised its ticket, so
\* when both do the advertised and approved count is two above the count
\* they started from, 7 when they start from 5.
C21_AdvertiseCapRace ==
    \A s, t \in Slots :
        TwoSwitchOns(s, t) =>
            /\ \A u \in {s, t} :
                   /\ req[u].code \in {200, 400}
                   /\ tickets[req[u].arg.id].isAdvertised = (req[u].code = 200)
            /\ AdvertisedCount(tickets)
                 = AdvertisedCount(req[s].pre.tickets)
                     + Cardinality({u \in {s, t} : req[u].code = 200})

\* started from one below the cap, both answered 200: one above the cap
C21_Witness ==
    \E s, t \in Slots :
        /\ TwoSwitchOns(s, t)
        /\ AdvertisedCount(req[s].pre.tickets) = MaxAdvertised - 1
        /\ req[s].code = 200 /\ req[t].code = 200
        /\ AdvertisedCount(tickets) = MaxAdvertised + 1

\* C22: in every state reached by completed ToggleAdvertise, admin verify and
\* vendor ticket calls, at most 6 tickets are advertised and approved; in
\* particular rejecting an advertised ticket, advertising others up to the
\* cap and approving it again does not raise the count above 6.
C22_GlobalAdvertiseCap ==
    (\A s \in Slots : ~InFlight(s)) =>
        Cardinality({t \in DOMAIN tickets :
                       /\ tickets[t].isAdvertised
                       /\ tickets[t].verificationStatus = "approved"})
          <= MaxAdvertised

\* the whole run is one POST /payments (s) with the right amount and one
\* DELETE by the owner (t), in either order of arrival, on the same booking,
\* which was pending when the first of them arrived; both have finished
PayAndCancel(s, t) ==
    /\ s # t
    /\ \A u \in Slots \ {s, t} : req[u].pc = "idle"
    /\ req[s].op = "recordPayment" /\ req[t].op = "cancelBooking"
    /\ req[s].arg.id = req[t].arg.id
    /\ Done(s) /\ Done(t)
    /\ LET first == IF s < t THEN s ELSE t
       IN  /\ req[s].arg.id \in DOMAIN req[first].pre.bookings
           /\ LET b == req[first].pre.bookings[req[s].arg.id]
              IN  /\ b.bookingStatus = "pending" /\ b.status = "pending"
                  /\ req[s].arg.amount = b.totalPrice
                  /\ req[t].arg.email = b.userEmail

\* C23: for any interleaving of one RecordPayment and one CancelBooking on
\* the same pending booking, once both handlers have finished the ticket's
\* quantity is its initial quantity if the booking ends cancelled, and the
\* initial quantity minus the booking's quantity if it ends confirmed.
C23_PayCancelConvergence ==
    \A s, t \in Slots :
        PayAndCancel(s, t) =>
            LET first == IF s < t THEN s ELSE t
                b == bookings[req[s].arg.id]
                q0 == req[first].pre.tickets[b.ticketId].quantity
            IN  /\ b.bookingStatus = "cancelled"
                     => tickets[b.ticketId].quantity = q0
                /\ b.bookingStatus = "confirmed"
                     => tickets[b.ticketId].quantity = q0 - b.quantity

\* the whole run is one POST /user (s) for a user with a record and one role
\* change (t) for the same user that answered 200; both have finished
UpsertAndChange(s, t) ==
    /\ s # t
    /\ \A u \in Slots \ {s, t} : req[u].pc = "idle"
    /\ req[s].op = "postUser" /\ req[t].op = "changeRole"
    /\ req[s].arg.email = req[t].arg.target
    /\ Done(s) /\ Done(t)
    /\ req[s].code = 200 /\ req[t].code = 200
    /\ RoleOf(req[s].pre.users, req[s].arg.email) # NoRole

\* C24: when a POST /user for an existing user runs concurrently with an
\* admin role change for the same email, the role stored after both have
\* completed is the one the admin set; the upsert never writes back the role
\* it read before the change.
C24_RolePreservedUnderInterleaving ==
    \A s, t \in Slots :
        UpsertAndChange(s, t) => users[req[t].arg.target] = req[t].arg.role

\* C25: whenever no RecordPayment handler is in flight, every Payment record
\* belongs to a booking that was marked paid with that transaction and whose
\* ticket was decremented for it, by a handler that ran to its 200; this
\* includes paying a cancelled booking whose seat has since been re-booked.
C25_SettlementCompletes ==
    (\A s \in Slots : ~(InFlight(s) /\ req[s].op = "recordPayment")) =>
        \A i \in DOMAIN payments :
            /\ payments[i].bookingId \in DOMAIN bookings
            /\ bookings[payments[i].bookingId].transactionId
                 = payments[i].transactionId
            /\ Cardinality(SettlementsOf(payments[i].bookingId))
                 = Cardinality(PaymentsFor(payments, payments[i].bookingId))

\* the DELETE requests for booking id that added its quantity back: they
\* answered 200 after reading the booking as paid or confirmed
RestoresOf(id) ==
    {s \in Slots : /\ req[s].op = "cancelBooking" /\ req[s].arg.id = id
                   /\ Done(s) /\ req[s].code = 200
                   /\ (req[s].doc.status = "paid"
                         \/ req[s].doc.bookingStatus = "confirmed")}

\* C26: over any sequence of completed operations, for every booking the
\* number of times CancelBooking added its quantity back to the ticket never
\* exceeds the number of times RecordPayment deducted it; a booking made
\* confirmed by UpdateBookingStatus without a payment does not cause a
\* restore with no matching deduction.
C26_RestoreMatchesDeduction ==
    \A id \in DOMAIN bookings :
        Cardinality(RestoresOf(id)) <= Cardinality(SettlementsOf(id))

\* request s is a POST /bookings for seat S of an existing ticket T, arriving
\* when a booking on (T, S) has been cancelled and none is active
Rebooks(s) ==
    /\ Latest(s)
    /\ req[s].op = "createBooking"
    /\ req[s].arg.seat # NoSeat
    /\ req[s].arg.id \in DOMAIN req[s].pre.tickets
    /\ HoldersOf(req[s].pre.bookings, req[s].arg.id, req[s].arg.seat) = {}
    /\ \E i \in DOMAIN req[s].pre.bookings :
           /\ req[s].pre.bookings[i].ticketId = req[s].arg.id
           /\ req[s].pre.bookings[i].seatNumber = req[s].arg.seat
           /\ req[s].pre.bookings[i].bookingStatus = "cancelled"

\* C27: after the only active booking on (ticket T, seat S) is cancelled, by
\* CancelBooking or by UpdateBookingStatus with rejected or cancelled, a
\* subsequent CreateBooking for (T, S) answers 201 and is not refused as a
\* seat conflict; the new booking holds the seat.
C27_CancelledFreesSeat ==
    \A s \in Slots :
        Rebooks(s) =>
            /\ req[s].code = 201
            /\ req[s].err = NoError
            /\ Cardinality(HoldersOf(bookings, req[s].arg.id, req[s].arg.seat)) = 1
            /\ bookings[Len(bookings)].seatNumber = req[s].arg.seat

\* cancelled by DELETE and re-booked, and cancelled by PATCH and re-booked
C27_Witness ==
    \E s \in Slots :
        /\ s > 1
        /\ Rebooks(s) /\ req[s].code = 201
        /\ req[s - 1].op \in {"cancelBooking", "updateStatus"}
        /\ req[s - 1].code = 200
        /\ req[s - 1].arg.id \in DOMAIN req[s - 1].pre.bookings
        /\ req[s - 1].pre.bookings[req[s - 1].arg.id].bookingStatus
             \in ActiveStatuses
        /\ bookings[req[s - 1].arg.id].bookingStatus = "cancelled"
        /\ bookings[req[s - 1].arg.id].seatNumber = req[s].arg.seat

\* the fields moderation decides
Moderation(ticket) ==
    <<ticket.verificationStatus, ticket.isAdvertised, ticket.isHidden>>

\* C28: a ticket is created with verificationStatus pending and isAdvertised
\* false whatever the request body carries, and a vendor update
\* (PATCH /tickets/:id) never changes verificationStatus, isAdvertised or
\* isHidden of any ticket: a ticket hidden by the fraud action stays hidden
\* and a pending or rejected ticket is not made approved by its vendor.
C28_ModerationFieldsAdminOnly ==
    \A s \in Slots :
        Latest(s) =>
            /\ (req[s].op = "addTicket" /\ req[s].code = 200) =>
                   /\ Len(tickets) = Len(req[s].pre.tickets) + 1
                   /\ tickets[Len(tickets)].verificationStatus = "pending"
                   /\ ~tickets[Len(tickets)].isAdvertised
            /\ req[s].op = "updateTicket" =>
                   \A t \in DOMAIN req[s].pre.tickets :
                       Moderation(tickets[t]) = Moderation(req[s].pre.tickets[t])

\* C29: no POST /user request produces a user record whose role is vendor or
\* admin: for an email without a record the stored role is customer whatever
\* role the body supplies, and an existing record's role is not raised.
C29_NoEscalationByUpsert ==
    [][ \A e \in Emails :
            users'[e] # users[e] => users'[e] = "customer" ]_vars

\* C30: every booking's bookingStatus is the image of its status under
\* accepted->confirmed, rejected->cancelled, paid->confirmed,
\* pending->pending, cancelled->cancelled, in every state reached under any
\* interleaving of the four booking handlers; and UpdateBookingStatus with a
\* status outside these five answers 400 before any store call and changes
\* no booking.
C30_StatusFieldsConsistent ==
    /\ \A i \in DOMAIN bookings :
           bookings[i].bookingStatus
             = (CASE bookings[i].status \in {"accepted", "paid"} -> "confirmed"
                  [] bookings[i].status \in {"rejected", "cancelled"} -> "cancelled"
                  [] bookings[i].status = "pending" -> "pending"
                  [] OTHER -> "undefined")
    /\ \A s \in Slots :
           (req[s].op = "updateStatus"
              /\ req[s].arg.status \notin {"accepted", "rejected", "pending",
                                           "paid", "cancelled"}) =>
               /\ req[s].pc = "done" /\ req[s].code = 400
               /\ req[s].err = NoError
               /\ (\A u \in Slots \ {s} : req[u].pc = "idle")
                    => bookings = req[s].pre.bookings

\* an unknown status was refused, a PATCH answered 200 and a booking holds a
\* status whose bookingStatus has another name
C30_Witness ==
    /\ \E s \in Slots : /\ req[s].op = "updateStatus" /\ req[s].code = 400
                        /\ req[s].arg.status = "refunded"
                        /\ IsValidId(req[s].arg.id)
    /\ \E s \in Slots : /\ req[s].op = "updateStatus" /\ req[s].code = 200
                        /\ req[s].arg.id \in DOMAIN bookings
    /\ \E i \in DOMAIN bookings :
           bookings[i].status \in {"accepted", "paid", "rejected"}

=============================================================================
